---- MODULE Spec2Model ----
(***************************************************************************)
(* Medallion: the workflow orchestrator (ExecuteWorkflow / executeStep)    *)
(* running against the knowledge-graph driver (runs, artifacts, agents).   *)
(* One invocation of ExecuteWorkflow is a process p; the Store (runs,      *)
(* artifacts) and the clock are shared by all invocations.                 *)
(***************************************************************************)
EXTENDS Integers, Sequences, FiniteSets, TLC

\* ---------------------------------------------------------------- bounds
MaxSteps == 3
MaxDeps == 2

\* Steps of a workflow in the runs checked for termination.
MaxTermSteps == 2

\* Steps of a workflow in the runs that refer to agents by name or by id.
MaxAgentSteps == 2

\* Steps of a workflow in the runs that vary the input templates.
MaxPromptSteps == 2

\* The wall-clock instants, in milliseconds, of the runs that trace spans.
MaxSpanClock == 3

\* The invocations of ExecuteWorkflow that may exist.
Procs == {1, 2}

\* Step names a workflow may use. A dependsOn entry naming a step the
\* workflow does not declare is a dangling dependency.
StepNames == {"a", "b", "c"}

\* ------------------------------------------------------- store contents
\* Rows of the agents table. GetAgent looks a row up by its id column.
AgentTable ==
    { [id |-> "planner", name |-> "planner", modelProvider |-> "ollama"],
      [id |-> "writer", name |-> "writer", modelProvider |-> "openai"],
      [id |-> "agent-editor", name |-> "editor", modelProvider |-> "ollama"] }

\* The names under which RegisterProvider stored a provider.
providers == {"ollama"}

\* The values a step's agent field takes: an agent whose provider is
\* registered, one whose provider is not, and one absent from the Store.
AgentRefs == {"planner", "writer", "ghost"}

\* A Go nil pointer / SQL NULL is the empty sequence, a set value is <<v>>.
Nil == <<>>
Some(v) == <<v>>

EmptyMap == [x \in {} |-> x]

\* ------------------------------------------------------------ workflows
DepSets == {d \in SUBSET StepNames : Cardinality(d) <= MaxDeps}

\* ------------------------------------------------------------------ text
\* A string that takes part in placeholder substitution is a sequence of
\* tokens: a piece of plain text, the placeholder {{.key}} of a variable,
\* or the placeholder {{.name.output}} of a step output.
Txt(s) == <<"txt", s>>
VarPh(key) == <<"{{.}}", key>>
OutPh(name) == <<"{{.output}}", name>>

\* The input template of a step: it refers to the variable input and to
\* the output of every step name.
InputTemplate == <<Txt("ask"), VarPh("input"), OutPh("a"), OutPh("b"), OutPh("c")>>

WorkflowStep ==
    [Name : StepNames, Agent : AgentRefs, DependsOn : DepSets,
     Input : {InputTemplate}]

Workflow == UNION {[1..n -> WorkflowStep] : n \in 0..MaxSteps}

\* ---------------------------------------------------------------- errors
ErrCreateRun == "failed to create run record"
ErrStalled == "workflow execution stalled - circular dependency or missing step"
ErrNoRows == "sql: no rows in result set"
ErrGenerate == "failed to generate"

\* The variables map of an invocation whose values are plain text.
PlainVariables == ("input" :> <<Txt("q")>>) @@ ("topic" :> <<Txt("T")>>)

\* A variables map in which the value of one variable holds the
\* placeholder of another.
NestedVariables == ("input" :> <<VarPh("topic")>>) @@ ("topic" :> <<Txt("T")>>)

VARIABLES
    workflow,       \* p -> the workflow the invocation was given (its Steps)
    variables,      \* p -> the variables map the invocation was given
    pc,             \* p -> position of the invocation in ExecuteWorkflow
    runID,          \* p -> the run id the invocation derived
    idx,            \* p -> position of the scan in workflow.Steps
    progress,       \* p -> the progress flag of the current pass
    executedSteps,  \* p -> set of step names marked executed
    stepResults,    \* p -> map step name -> StepResult
    result,         \* p -> the ExecutionResult under construction
    agent,          \* p -> the agent resolved for the step in flight
    ret,            \* p -> what ExecuteWorkflow returned (result, err)
    calls,          \* p -> history of the calls the invocation made
    prompts,        \* p -> map step name -> Prompt of its Generate request
    faults,         \* p -> the store calls the Store itself made fail
    ctx,            \* p -> state of the context the invocation was given
    now,            \* the clock, in whole seconds (time.Now().Unix())
    runs,           \* Store: runs table, id -> row
    artifacts,      \* Store: artifacts table, id -> row
    kgQuery,        \* the kg query command: its query and what ParseQuery returned
    spans           \* the spans table: span id -> row

vars == <<workflow, variables, pc, runID, idx, progress, executedSteps,
          stepResults, result, agent, ret, calls, prompts, faults, ctx, now,
          runs, artifacts, kgQuery, spans>>

\* -------------------------------------------------------------- helpers
Steps(p) == workflow[p][1]

step(p) == workflow[p][1][idx[p]]

\* The text the provider stub returns for a step.
Output(name) == <<Txt(name)>>

\* strings.Contains: the string s contains the string sub.
Contains(s, sub) ==
    \E k \in 1..(Len(s) - Len(sub) + 1) : SubSeq(s, k, k + Len(sub) - 1) = sub

\* strings.ReplaceAll on token sequences.
RECURSIVE ReplaceAll(_, _, _)
ReplaceAll(s, placeholder, value) ==
    IF s = <<>> THEN <<>>
    ELSE (IF Head(s) = placeholder THEN value ELSE <<Head(s)>>)
            \o ReplaceAll(Tail(s), placeholder, value)

\* The Output field of a StepResult as a string ("" when never assigned).
OutputString(stepResult) ==
    IF stepResult.Output = Nil THEN <<>> ELSE stepResult.Output[1]

\* for key, value := range variables: the strings the loop may end with when
\* it starts with one of the strings S and has still to visit keys. A
\* range loop over a Go map visits the keys in an unspecified order.
RECURSIVE RangeVariables(_, _, _)
RangeVariables(S, keys, vs) ==
    IF keys = {} THEN S
    ELSE UNION {RangeVariables({ReplaceAll(s, VarPh(key), vs[key]) : s \in S},
                               keys \ {key}, vs) : key \in keys}

\* for stepName, stepResult := range stepResults, likewise.
RECURSIVE RangeStepResults(_, _, _)
RangeStepResults(S, names, srs) ==
    IF names = {} THEN S
    ELSE UNION {RangeStepResults(
                    {ReplaceAll(s, OutPh(stepName), OutputString(srs[stepName])) : s \in S},
                    names \ {stepName}, srs) : stepName \in names}

\* substituteVariables: the strings it may return.
substituteVariables(input, vs, srs) ==
    RangeStepResults(RangeVariables({input}, DOMAIN vs, vs), DOMAIN srs, srs)

\* Variant: returns true as soon as one dependency is found executed.
areDependenciesSatisfied_AnyDep(dependencies, executed) ==
    dependencies = {} \/ \E dep \in dependencies : dep \in executed

\* Variant: the test of the executed set is negated.
areDependenciesSatisfied_Inverted(dependencies, executed) ==
    \A dep \in dependencies : dep \notin executed

areDependenciesSatisfied(dependencies, executed) ==
    \A dep \in dependencies : dep \in executed

GetAgent(id) ==
    IF \E a \in AgentTable : a.id = id
    THEN Some(CHOOSE a \in AgentTable : a.id = id)
    ELSE Nil

\* INSERT INTO runs: the primary key rejects an id already present.
CreateRunOk(rs, id, storeOk) == storeOk /\ id \notin DOMAIN rs

InsertRun(rs, id, t) ==
    rs @@ (id :> [status |-> "running", outputData |-> Nil, startedAt |-> t,
                  completedAt |-> Nil, durationMs |-> Nil,
                  errorMessage |-> Nil])

\* UPDATE runs SET ... WHERE id = ?; a failed statement changes nothing.
UpdateRunStatus(rs, id, status, outputData, errorMessage, t, storeOk) ==
    IF storeOk /\ id \in DOMAIN rs
    THEN [rs EXCEPT ![id] =
            [@ EXCEPT !.status = status,
                      !.outputData = Some(outputData),
                      !.errorMessage = Some(errorMessage),
                      !.completedAt = Some(t),
                      !.durationMs = Some((t - rs[id].startedAt) * 1000)]]
    ELSE rs

ArtifactID(name, t) == <<"ART", name, t>>

\* INSERT INTO artifacts: the primary key rejects an id already present.
CreateArtifact(as, id, row, storeOk) ==
    IF storeOk /\ id \notin DOMAIN as THEN as @@ (id :> row) ELSE as

\* One entry of the call history: the operation, the position and name of
\* the step it concerns (0, "" when none), and its status and message
\* arguments ("" when none).
Ev(op, i, name, status, msg) ==
    [op |-> op, i |-> i, name |-> name, status |-> status, msg |-> msg]

Append1(p, e) == [calls EXCEPT ![p] = Append(@, e)]

\* ------------------------------------------------------------- initial
NewResult(id, t) ==
    [RunID |-> id, Status |-> "running", StartTime |-> t, EndTime |-> Nil,
     Duration |-> Nil,
     Steps |-> EmptyMap, Error |-> ""]

InitRuns(ws, vss) ==
    /\ workflow \in ws
    /\ variables \in vss
    /\ pc = [p \in Procs |-> IF workflow[p] = Nil THEN "off" ELSE "start"]
    /\ runID = [p \in Procs |-> Nil]
    /\ idx = [p \in Procs |-> 0]
    /\ progress = [p \in Procs |-> FALSE]
    /\ executedSteps = [p \in Procs |-> {}]
    /\ stepResults = [p \in Procs |-> EmptyMap]
    /\ result = [p \in Procs |-> Nil]
    /\ agent = [p \in Procs |-> Nil]
    /\ ret = [p \in Procs |-> [result |-> Nil, err |-> ""]]
    /\ calls = [p \in Procs |-> <<>>]
    /\ prompts = [p \in Procs |-> EmptyMap]
    /\ faults = [p \in Procs |-> {}]
    /\ ctx = [p \in Procs |-> "live"]
    /\ now = 0
    /\ runs = EmptyMap
    /\ artifacts = EmptyMap

\* The invocations as InitRuns sets them up; no kg query is made and no
\* span is stored.
InitWith(ws, vss) == InitRuns(ws, vss) /\ kgQuery = Nil /\ spans = EmptyMap

\* One invocation, given any workflow within the bounds; the other
\* invocation is never made (Nil workflow).
Init ==
    InitWith({[p \in Procs |-> IF p = 1 THEN Some(w) ELSE Nil] : w \in Workflow},
             {[p \in Procs |-> PlainVariables]})

\* ------------------------------------------------------------- actions
\* The Store made a call fail: note it.
Fault(p, storeOk, op, name) ==
    [faults EXCEPT ![p] = IF storeOk THEN @ ELSE @ \cup {<<op, name>>}]

\* Variant: the error of the CreateRun call is ignored.
CreateRun_IgnoresError(p) ==
    /\ pc[p] = "start"
    /\ LET id == <<"RUN", now>> IN
       \E storeOk \in BOOLEAN :
          /\ runID' = [runID EXCEPT ![p] = Some(id)]
          /\ result' = [result EXCEPT ![p] = Some(NewResult(id, now))]
          /\ calls' = Append1(p, Ev("createRun", 0, "", "running", ""))
          /\ faults' = Fault(p, storeOk, "createRun", "")
          /\ runs' = IF CreateRunOk(runs, id, storeOk)
                     THEN InsertRun(runs, id, now) ELSE runs
          /\ pc' = [pc EXCEPT ![p] = "loop"]
          /\ ret' = ret
    /\ UNCHANGED <<spans, kgQuery, workflow, variables, idx, progress, executedSteps,
                   stepResults, agent, prompts, ctx, now, artifacts>>

\* ExecuteWorkflow, entry to the CreateRun call.
CreateRun(p) ==
    /\ pc[p] = "start"
    /\ LET id == <<"RUN", now>> IN
       \E storeOk \in BOOLEAN :
          /\ runID' = [runID EXCEPT ![p] = Some(id)]
          /\ result' = [result EXCEPT ![p] = Some(NewResult(id, now))]
          /\ calls' = Append1(p, Ev("createRun", 0, "", "running", ""))
          /\ faults' = Fault(p, storeOk, "createRun", "")
          /\ IF CreateRunOk(runs, id, storeOk)
             THEN /\ runs' = InsertRun(runs, id, now)
                  /\ pc' = [pc EXCEPT ![p] = "loop"]
                  /\ ret' = ret
             ELSE /\ runs' = runs
                  /\ pc' = [pc EXCEPT ![p] = "returned"]
                  /\ ret' = [ret EXCEPT ![p] = [result |-> Nil, err |-> ErrCreateRun]]
    /\ UNCHANGED <<spans, kgQuery, workflow, variables, idx, progress, executedSteps,
                   stepResults, agent, prompts, ctx, now, artifacts>>

\* for len(executedSteps) < len(workflow.Steps): the condition holds, a
\* pass over workflow.Steps begins.
NextPass(p) ==
    /\ pc[p] = "loop"
    /\ Cardinality(executedSteps[p]) < Len(Steps(p))
    /\ progress' = [progress EXCEPT ![p] = FALSE]
    /\ idx' = [idx EXCEPT ![p] = 1]
    /\ calls' = Append1(p, Ev("pass", 0, "", "", ""))
    /\ pc' = [pc EXCEPT ![p] = "scan"]
    /\ UNCHANGED <<spans, kgQuery, workflow, variables, runID, executedSteps, stepResults,
                   result, agent, ret, prompts, faults, ctx, now, runs,
                   artifacts>>

\* Variant: the loop ends when every declared name is executed.
Complete_CountsNames(p) ==
    /\ pc[p] = "loop"
    /\ ~(Cardinality(executedSteps[p]) < Cardinality({Steps(p)[i].Name : i \in DOMAIN Steps(p)}))
    /\ LET r == [result[p][1] EXCEPT !.Status = "completed",
                                     !.EndTime = Some(now),
                                     !.Duration = Some(now - result[p][1].StartTime)] IN
       \E storeOk \in BOOLEAN :
          /\ result' = [result EXCEPT ![p] = Some(r)]
          /\ runs' = UpdateRunStatus(runs, runID[p][1], "completed", "map[]", "",
                                     now, storeOk)
          /\ faults' = Fault(p, storeOk, "updateRunStatus", "")
          /\ calls' = Append1(p, Ev("updateRunStatus", 0, "", "completed", ""))
          /\ ret' = [ret EXCEPT ![p] = [result |-> Some(r), err |-> ""]]
    /\ pc' = [pc EXCEPT ![p] = "returned"]
    /\ UNCHANGED <<spans, kgQuery, workflow, variables, runID, idx, progress, executedSteps,
                   stepResults, agent, prompts, ctx, now, artifacts>>

\* The loop condition fails: mark the workflow completed and return.
Complete(p) ==
    /\ pc[p] = "loop"
    /\ ~(Cardinality(executedSteps[p]) < Len(Steps(p)))
    /\ LET r == [result[p][1] EXCEPT !.Status = "completed",
                                     !.EndTime = Some(now),
                                     !.Duration = Some(now - result[p][1].StartTime)] IN
       \E storeOk \in BOOLEAN :
          /\ result' = [result EXCEPT ![p] = Some(r)]
          /\ runs' = UpdateRunStatus(runs, runID[p][1], "completed", "map[]", "",
                                     now, storeOk)
          /\ faults' = Fault(p, storeOk, "updateRunStatus", "")
          /\ calls' = Append1(p, Ev("updateRunStatus", 0, "", "completed", ""))
          /\ ret' = [ret EXCEPT ![p] = [result |-> Some(r), err |-> ""]]
    /\ pc' = [pc EXCEPT ![p] = "returned"]
    /\ UNCHANGED <<spans, kgQuery, workflow, variables, runID, idx, progress, executedSteps,
                   stepResults, agent, prompts, ctx, now, artifacts>>

\* continue: the step is already executed or a dependency is not.
SkipStep(p) ==
    /\ pc[p] = "scan"
    /\ idx[p] <= Len(Steps(p))
    /\ \/ step(p).Name \in executedSteps[p]
       \/ ~areDependenciesSatisfied(step(p).DependsOn, executedSteps[p])
    /\ idx' = [idx EXCEPT ![p] = @ + 1]
    /\ UNCHANGED <<spans, kgQuery, workflow, variables, pc, runID, progress, executedSteps,
                   stepResults, result, agent, ret, calls, prompts, faults,
                   ctx, now, runs, artifacts>>

\* Variant: the scan does not skip a step that is already executed.
Runnable_NoExecutedCheck(p) ==
    /\ pc[p] = "scan"
    /\ idx[p] <= Len(Steps(p))
    /\ areDependenciesSatisfied(step(p).DependsOn, executedSteps[p])

\* The step at idx is not executed and its dependencies are satisfied.
Runnable(p) ==
    /\ pc[p] = "scan"
    /\ idx[p] <= Len(Steps(p))
    /\ step(p).Name \notin executedSteps[p]
    /\ areDependenciesSatisfied(step(p).DependsOn, executedSteps[p])

\* Variant: the pass does not note that it made progress.
Record_NoProgress(p, stepResult, log) ==
    /\ calls' = [calls EXCEPT ![p] =
                   Append(log, Ev("executed", idx[p], step(p).Name, stepResult.Status, ""))]
    /\ stepResults' = [stepResults EXCEPT ![p] = @ @@ (step(p).Name :> stepResult)]
    /\ result' = [result EXCEPT ![p] =
                    Some([@[1] EXCEPT !.Steps = @ @@ (step(p).Name :> stepResult)])]
    /\ executedSteps' = [executedSteps EXCEPT ![p] = @ \cup {step(p).Name}]
    /\ progress' = progress
    /\ idx' = [idx EXCEPT ![p] = @ + 1]
    /\ pc' = [pc EXCEPT ![p] = "scan"]
    /\ ret' = ret

\* Variant: after a step is recorded the pass goes back to the first step.
Record_RestartsScan(p, stepResult, log) ==
    /\ calls' = [calls EXCEPT ![p] =
                   Append(log, Ev("executed", idx[p], step(p).Name, stepResult.Status, ""))]
    /\ stepResults' = [stepResults EXCEPT ![p] = @ @@ (step(p).Name :> stepResult)]
    /\ result' = [result EXCEPT ![p] =
                    Some([@[1] EXCEPT !.Steps = @ @@ (step(p).Name :> stepResult)])]
    /\ executedSteps' = [executedSteps EXCEPT ![p] = @ \cup {step(p).Name}]
    /\ progress' = [progress EXCEPT ![p] = TRUE]
    /\ idx' = [idx EXCEPT ![p] = 1]
    /\ pc' = [pc EXCEPT ![p] = "scan"]
    /\ ret' = ret

\* Variant: the scan pass ends with the step that was recorded.
Record_EndsPass(p, stepResult, log) ==
    /\ calls' = [calls EXCEPT ![p] =
                   Append(log, Ev("executed", idx[p], step(p).Name, stepResult.Status, ""))]
    /\ stepResults' = [stepResults EXCEPT ![p] = @ @@ (step(p).Name :> stepResult)]
    /\ result' = [result EXCEPT ![p] =
                    Some([@[1] EXCEPT !.Steps = @ @@ (step(p).Name :> stepResult)])]
    /\ executedSteps' = [executedSteps EXCEPT ![p] = @ \cup {step(p).Name}]
    /\ progress' = [progress EXCEPT ![p] = TRUE]
    /\ idx' = [idx EXCEPT ![p] = Len(Steps(p)) + 1]
    /\ pc' = [pc EXCEPT ![p] = "scan"]
    /\ ret' = ret

\* executeStep returned a nil error: record the result, mark the step.
Record(p, stepResult, log) ==
    /\ calls' = [calls EXCEPT ![p] =
                   Append(log, Ev("executed", idx[p], step(p).Name, stepResult.Status, ""))]
    /\ stepResults' = [stepResults EXCEPT ![p] = @ @@ (step(p).Name :> stepResult)]
    /\ result' = [result EXCEPT ![p] =
                    Some([@[1] EXCEPT !.Steps = @ @@ (step(p).Name :> stepResult)])]
    /\ executedSteps' = [executedSteps EXCEPT ![p] = @ \cup {step(p).Name}]
    /\ progress' = [progress EXCEPT ![p] = TRUE]
    /\ idx' = [idx EXCEPT ![p] = @ + 1]
    /\ pc' = [pc EXCEPT ![p] = "scan"]
    /\ ret' = ret

\* Variant: the failure is recorded but the scan goes on (no return).
Fail_Continue(p, err, log) ==
    LET r == [result[p][1] EXCEPT !.Status = "failed", !.Error = err,
                                  !.EndTime = Some(now),
                                  !.Duration = Some(now - result[p][1].StartTime)] IN
    \E storeOk \in BOOLEAN :
       /\ result' = [result EXCEPT ![p] = Some(r)]
       /\ runs' = UpdateRunStatus(runs, runID[p][1], "failed", "", err, now, storeOk)
       /\ faults' = Fault(p, storeOk, "updateRunStatus", "")
       /\ calls' = [calls EXCEPT ![p] = Append(log, Ev("updateRunStatus", 0, "", "failed", err))]
       /\ ret' = ret
       /\ pc' = [pc EXCEPT ![p] = "scan"]
       /\ idx' = [idx EXCEPT ![p] = @ + 1]
       /\ UNCHANGED <<progress, executedSteps, stepResults>>

\* executeStep returned an error: mark the run failed and return.
Fail(p, err, log) ==
    LET r == [result[p][1] EXCEPT !.Status = "failed", !.Error = err,
                                  !.EndTime = Some(now),
                                  !.Duration = Some(now - result[p][1].StartTime)] IN
    \E storeOk \in BOOLEAN :
       /\ result' = [result EXCEPT ![p] = Some(r)]
       /\ runs' = UpdateRunStatus(runs, runID[p][1], "failed", "", err, now, storeOk)
       /\ faults' = Fault(p, storeOk, "updateRunStatus", "")
       /\ calls' = [calls EXCEPT ![p] = Append(log, Ev("updateRunStatus", 0, "", "failed", err))]
       /\ ret' = [ret EXCEPT ![p] = [result |-> Some(r), err |-> err]]
       /\ pc' = [pc EXCEPT ![p] = "returned"]
       /\ UNCHANGED <<idx, progress, executedSteps, stepResults>>

\* executeStep: GetAgent fails.
AgentLookupFails(p) ==
    /\ Runnable(p)
    /\ GetAgent(step(p).Agent) = Nil
    /\ Fail(p, ErrNoRows, Append(calls[p], Ev("executeStep", idx[p], step(p).Name, "", "")))
    /\ UNCHANGED <<spans, kgQuery, workflow, variables, runID, agent, prompts, ctx, now,
                   artifacts>>

\* The StepResult executeStep starts from: Input, Output and Error are
\* never assigned before the first return and hold the empty string.
NewStepResult == [Status |-> "running", Input |-> <<>>, Output |-> Nil, Error |-> ""]

\* executeStep: the agent's provider is not registered. The error returned
\* is the (nil) error of the GetAgent call.
ProviderMissing(p) ==
    /\ Runnable(p)
    /\ GetAgent(step(p).Agent) # Nil
    /\ GetAgent(step(p).Agent)[1].modelProvider \notin providers
    /\ Record(p, [NewStepResult EXCEPT !.Status = "failed",
                                       !.Error = "provider not found"],
               Append(calls[p], Ev("executeStep", idx[p], step(p).Name, "", "")))
    /\ UNCHANGED <<spans, kgQuery, workflow, variables, runID, agent, prompts, faults, ctx,
                   now, runs, artifacts>>

\* executeStep up to the provider.Generate call, which is then in flight.
CallProvider(p) ==
    /\ Runnable(p)
    /\ GetAgent(step(p).Agent) # Nil
    /\ GetAgent(step(p).Agent)[1].modelProvider \in providers
    /\ agent' = [agent EXCEPT ![p] = GetAgent(step(p).Agent)]
    /\ \E input \in substituteVariables(step(p).Input, variables[p], stepResults[p]) :
          prompts' = [prompts EXCEPT ![p] = @ @@ (step(p).Name :> input)]
    /\ calls' = [calls EXCEPT ![p] = @ \o
                   <<Ev("executeStep", idx[p], step(p).Name, "", ""),
                     Ev("Generate", idx[p], step(p).Name, "", "")>>]
    /\ pc' = [pc EXCEPT ![p] = "generate"]
    /\ UNCHANGED <<spans, kgQuery, workflow, variables, runID, idx, progress, executedSteps,
                   stepResults, result, ret, faults, ctx, now, runs,
                   artifacts>>

\* The caller cancels the context while the Generate call is in flight.
CancelContext(p) ==
    /\ pc[p] = "generate"
    /\ ctx[p] = "live"
    /\ ctx' = [ctx EXCEPT ![p] = "cancelled"]
    /\ UNCHANGED <<spans, kgQuery, workflow, variables, pc, runID, idx, progress,
                   executedSteps, stepResults, result, agent, ret, calls,
                   prompts, faults, now, runs, artifacts>>

\* provider.Generate returns an error (of the backend, or of the request's
\* cancelled context).
GenerateFails(p) ==
    /\ pc[p] = "generate"
    /\ Fail(p, ErrGenerate, calls[p])
    /\ agent' = [agent EXCEPT ![p] = Nil]
    /\ UNCHANGED <<spans, kgQuery, workflow, variables, runID, prompts, ctx, now, artifacts>>

\* Variant: the artifact names the agent where it should name the step.
ArtifactRow_AgentAsStep(p, text) ==
    [RunID |-> runID[p][1], StepName |-> agent[p][1].id,
     AgentID |-> agent[p][1].id, Content |-> text]

\* The kg.Artifact executeStep builds from the provider's response.
ArtifactRow(p, text) ==
    [RunID |-> runID[p][1], StepName |-> step(p).Name,
     AgentID |-> agent[p][1].id, Content |-> text]

\* Variant: a failed artifact write fails the step.
GenerateSucceeds_ArtifactFatal(p) ==
    /\ pc[p] = "generate"
    /\ ctx[p] = "live"
    /\ LET name == step(p).Name
           text == Output(name)
           log == Append(calls[p], Ev("createArtifact", idx[p], name, "", ""))
       IN \E storeOk \in BOOLEAN :
            /\ artifacts' = CreateArtifact(artifacts, ArtifactID(name, now),
                                           ArtifactRow(p, text), storeOk)
            /\ IF storeOk
               THEN /\ Record(p, [NewStepResult EXCEPT !.Status = "completed",
                                                       !.Output = Some(text)], log)
                    /\ faults' = faults
                    /\ runs' = runs
               ELSE LET r == [result[p][1] EXCEPT
                                 !.Status = "failed", !.Error = ErrGenerate,
                                 !.EndTime = Some(now),
                                 !.Duration = Some(now - result[p][1].StartTime)]
                    IN /\ result' = [result EXCEPT ![p] = Some(r)]
                       /\ runs' = UpdateRunStatus(runs, runID[p][1], "failed", "",
                                                  ErrGenerate, now, TRUE)
                       /\ faults' = Fault(p, FALSE, "createArtifact", name)
                       /\ calls' = [calls EXCEPT ![p] =
                             Append(log, Ev("updateRunStatus", 0, "", "failed", ErrGenerate))]
                       /\ ret' = [ret EXCEPT ![p] = [result |-> Some(r), err |-> ErrGenerate]]
                       /\ pc' = [pc EXCEPT ![p] = "returned"]
                       /\ UNCHANGED <<idx, progress, executedSteps, stepResults>>
    /\ agent' = [agent EXCEPT ![p] = Nil]
    /\ UNCHANGED <<spans, kgQuery, workflow, variables, runID, prompts, ctx, now>>

\* Variant: the request is sent without the context, so the call may
\* return a response after the context was cancelled.
GenerateSucceeds_IgnoresContext(p) ==
    /\ pc[p] = "generate"
    /\ LET name == step(p).Name
           text == Output(name)
       IN \E storeOk \in BOOLEAN :
            /\ artifacts' = CreateArtifact(artifacts, ArtifactID(name, now),
                                           ArtifactRow(p, text), storeOk)
            /\ faults' = Fault(p, storeOk, "createArtifact", name)
            /\ Record(p, [NewStepResult EXCEPT !.Status = "completed",
                                               !.Output = Some(text)],
                       Append(calls[p], Ev("createArtifact", idx[p], name, "", "")))
    /\ agent' = [agent EXCEPT ![p] = Nil]
    /\ UNCHANGED <<spans, kgQuery, workflow, variables, runID, prompts, ctx, now, runs>>

\* provider.Generate returns a response (the request's context is not
\* cancelled): the artifact is written (best effort) and executeStep
\* returns the completed step result.
GenerateSucceeds(p) ==
    /\ pc[p] = "generate"
    /\ ctx[p] = "live"
    /\ LET name == step(p).Name
           text == Output(name)
       IN \E storeOk \in BOOLEAN :
            /\ artifacts' = CreateArtifact(artifacts, ArtifactID(name, now),
                                           ArtifactRow(p, text), storeOk)
            /\ faults' = Fault(p, storeOk, "createArtifact", name)
            /\ Record(p, [NewStepResult EXCEPT !.Status = "completed",
                                               !.Output = Some(text)],
                       Append(calls[p], Ev("createArtifact", idx[p], name, "", "")))
    /\ agent' = [agent EXCEPT ![p] = Nil]
    /\ UNCHANGED <<spans, kgQuery, workflow, variables, runID, prompts, ctx, now, runs>>

\* Variant: the scan starts over whether or not the pass made progress.
PassDone_IgnoresProgress(p) ==
    /\ pc[p] = "scan"
    /\ idx[p] > Len(Steps(p))
    /\ pc' = [pc EXCEPT ![p] = "loop"]
    /\ UNCHANGED <<spans, kgQuery, workflow, variables, runID, idx, progress, executedSteps,
                   stepResults, result, agent, ret, calls, prompts, faults,
                   ctx, now, runs, artifacts>>

\* The pass ended with progress: back to the loop condition.
PassDone(p) ==
    /\ pc[p] = "scan"
    /\ idx[p] > Len(Steps(p))
    /\ progress[p]
    /\ pc' = [pc EXCEPT ![p] = "loop"]
    /\ UNCHANGED <<spans, kgQuery, workflow, variables, runID, idx, progress, executedSteps,
                   stepResults, result, agent, ret, calls, prompts, faults,
                   ctx, now, runs, artifacts>>

\* Variant: the stall is written to the Store as a failed run.
Stall_MarksFailed(p) ==
    /\ pc[p] = "scan"
    /\ idx[p] > Len(Steps(p))
    /\ ~progress[p]
    /\ \E storeOk \in BOOLEAN :
          /\ runs' = UpdateRunStatus(runs, runID[p][1], "failed", "", ErrStalled, now, storeOk)
          /\ faults' = Fault(p, storeOk, "updateRunStatus", "")
    /\ calls' = Append1(p, Ev("updateRunStatus", 0, "", "failed", ErrStalled))
    /\ ret' = [ret EXCEPT ![p] = [result |-> Nil, err |-> ErrStalled]]
    /\ pc' = [pc EXCEPT ![p] = "returned"]
    /\ UNCHANGED <<spans, kgQuery, workflow, variables, runID, idx, progress, executedSteps,
                   stepResults, result, agent, prompts, ctx, now, artifacts>>

\* The pass ended without progress: return the stall error, no result.
Stall(p) ==
    /\ pc[p] = "scan"
    /\ idx[p] > Len(Steps(p))
    /\ ~progress[p]
    /\ ret' = [ret EXCEPT ![p] = [result |-> Nil, err |-> ErrStalled]]
    /\ pc' = [pc EXCEPT ![p] = "returned"]
    /\ UNCHANGED <<spans, kgQuery, workflow, variables, runID, idx, progress, executedSteps,
                   stepResults, result, agent, calls, prompts, faults, ctx,
                   now, runs, artifacts>>

Next ==
    \E p \in Procs :
        \/ CreateRun(p)
        \/ NextPass(p)
        \/ Complete(p)
        \/ SkipStep(p)
        \/ AgentLookupFails(p)
        \/ ProviderMissing(p)
        \/ CallProvider(p)
        \/ CancelContext(p)
        \/ GenerateFails(p)
        \/ GenerateSucceeds(p)
        \/ PassDone(p)
        \/ Stall(p)

Spec == Init /\ [][Next]_vars

\* ======================================================================
\* The kg query translator (QueryParser)
\* ======================================================================
\* A query text is a sequence of characters.
strMATCH == <<"M", "A", "T", "C", "H">>

strSELECT == <<"S", "E", "L", "E", "C", "T">>

strCOUNT == <<"C", "O", "U", "N", "T">>

strWHERE == <<"W", "H", "E", "R", "E">>

strClaim == <<":", "C", "l", "a", "i", "m">>

strAgent == <<":", "A", "g", "e", "n", "t">>

strRun == <<":", "R", "u", "n">>

strArtifact == <<":", "A", "r", "t", "i", "f", "a", "c", "t">>

strVarDot == <<"n", ".">>

strDoubleQuote == <<"\"">>

strSingleQuote == <<"'">>

sqlCountClaims ==
    <<"S", "E", "L", "E", "C", "T", " ", "C", "O", "U", "N", "T", "(",
      "*", ")", " ", "F", "R", "O", "M", " ", "c", "l", "a", "i",
      "m", "s">>

sqlCountAgents ==
    <<"S", "E", "L", "E", "C", "T", " ", "C", "O", "U", "N", "T", "(",
      "*", ")", " ", "F", "R", "O", "M", " ", "a", "g", "e", "n",
      "t", "s">>

sqlCountRuns ==
    <<"S", "E", "L", "E", "C", "T", " ", "C", "O", "U", "N", "T", "(",
      "*", ")", " ", "F", "R", "O", "M", " ", "r", "u", "n", "s">>

sqlCountArtifacts ==
    <<"S", "E", "L", "E", "C", "T", " ", "C", "O", "U", "N", "T", "(",
      "*", ")", " ", "F", "R", "O", "M", " ", "a", "r", "t", "i",
      "f", "a", "c", "t", "s">>

sqlSelectClaims ==
    <<"S", "E", "L", "E", "C", "T", " ", "*", " ", "F", "R", "O", "M",
      " ", "c", "l", "a", "i", "m", "s">>

sqlSelectAgents ==
    <<"S", "E", "L", "E", "C", "T", " ", "*", " ", "F", "R", "O", "M",
      " ", "a", "g", "e", "n", "t", "s">>

sqlSelectRuns ==
    <<"S", "E", "L", "E", "C", "T", " ", "*", " ", "F", "R", "O", "M",
      " ", "r", "u", "n", "s">>

sqlSelectArtifacts ==
    <<"S", "E", "L", "E", "C", "T", " ", "*", " ", "F", "R", "O", "M",
      " ", "a", "r", "t", "i", "f", "a", "c", "t", "s">>

sqlSelectAgentsWhere ==
    <<"S", "E", "L", "E", "C", "T", " ", "*", " ", "F", "R", "O", "M",
      " ", "a", "g", "e", "n", "t", "s", " ", "W", "H", "E", "R",
      "E", " ">>

\* ---------------------------------------------------------------- errors
ErrUnsupportedQuery == "unsupported query type"
ErrCountEntity == "unsupported entity type in COUNT query"
ErrWhereNotFound == "WHERE clause not found"
ErrWhereEntity == "unsupported entity type in WHERE query"
ErrSimpleEntity == "unsupported entity type in simple MATCH query"

\* ------------------------------------------------------ package strings
\* The upper-case form of each lower-case letter.
UpperOf ==
    ("a" :> "A") @@ ("b" :> "B") @@ ("c" :> "C") @@ ("d" :> "D") @@
    ("e" :> "E") @@ ("f" :> "F") @@ ("g" :> "G") @@ ("h" :> "H") @@
    ("i" :> "I") @@ ("j" :> "J") @@ ("k" :> "K") @@ ("l" :> "L") @@
    ("m" :> "M") @@ ("n" :> "N") @@ ("o" :> "O") @@ ("p" :> "P") @@
    ("q" :> "Q") @@ ("r" :> "R") @@ ("s" :> "S") @@ ("t" :> "T") @@
    ("u" :> "U") @@ ("v" :> "V") @@ ("w" :> "W") @@ ("x" :> "X") @@
    ("y" :> "Y") @@ ("z" :> "Z")

ToUpper(s) ==
    [i \in DOMAIN s |-> IF s[i] \in DOMAIN UpperOf THEN UpperOf[s[i]] ELSE s[i]]

\* strings.TrimSpace: leading and trailing white space removed.
TrimSpace(s) ==
    LET black == {i \in DOMAIN s : s[i] # " "} IN
    IF black = {} THEN <<>>
    ELSE SubSeq(s, CHOOSE i \in black : \A j \in black : i <= j,
                   CHOOSE i \in black : \A j \in black : j <= i)

HasPrefix(s, prefix) ==
    Len(s) >= Len(prefix) /\ SubSeq(s, 1, Len(prefix)) = prefix

\* strings.Index: the (0-based) position of the first occurrence, or -1.
Index(s, sub) ==
    LET hits == {k \in 1..(Len(s) - Len(sub) + 1) : SubSeq(s, k, k + Len(sub) - 1) = sub} IN
    IF hits = {} THEN -1 ELSE (CHOOSE k \in hits : \A j \in hits : k <= j) - 1

\* strings.ReplaceAll of a non-empty string old, scanning s from (1-based)
\* position i: the occurrences replaced do not overlap.
RECURSIVE ReplaceFrom(_, _, _, _)
ReplaceFrom(s, i, old, new) ==
    IF i > Len(s) THEN <<>>
    ELSE IF i + Len(old) - 1 <= Len(s) /\ SubSeq(s, i, i + Len(old) - 1) = old
         THEN new \o ReplaceFrom(s, i + Len(old), old, new)
         ELSE <<s[i]>> \o ReplaceFrom(s, i + 1, old, new)

\* What a parse function returns: the query text ("" on error) and the
\* error ("" for nil).
Translated(sql) == [sql |-> sql, err |-> ""]

Rejected(err) == [sql |-> <<>>, err |-> err]

\* ----------------------------------------------------------- the parser
parseCountQuery(query) ==
    IF Contains(query, strClaim) THEN Translated(sqlCountClaims)
    ELSE IF Contains(query, strAgent) THEN Translated(sqlCountAgents)
    ELSE IF Contains(query, strRun) THEN Translated(sqlCountRuns)
    ELSE IF Contains(query, strArtifact) THEN Translated(sqlCountArtifacts)
    ELSE Rejected(ErrCountEntity)

parseWhereQuery(query) ==
    IF Contains(query, strAgent)
    THEN LET whereStart == Index(query, strWHERE) IN
         IF whereStart = -1 THEN Rejected(ErrWhereNotFound)
         ELSE LET skipped == SubSeq(query, whereStart + 5 + 1, Len(query))
                  trimmed == TrimSpace(skipped)
                  unqualified == ReplaceFrom(trimmed, 1, strVarDot, <<>>)
                  whereClause == ReplaceFrom(unqualified, 1, strDoubleQuote,
                                             strSingleQuote)
              IN Translated(sqlSelectAgentsWhere \o whereClause)
    ELSE Rejected(ErrWhereEntity)

parseSimpleMatchQuery(query) ==
    IF Contains(query, strClaim) THEN Translated(sqlSelectClaims)
    ELSE IF Contains(query, strAgent) THEN Translated(sqlSelectAgents)
    ELSE IF Contains(query, strRun) THEN Translated(sqlSelectRuns)
    ELSE IF Contains(query, strArtifact) THEN Translated(sqlSelectArtifacts)
    ELSE Rejected(ErrSimpleEntity)

parseMatchQuery(query) ==
    IF Contains(query, strCOUNT) THEN parseCountQuery(query)
    ELSE IF Contains(query, strWHERE) THEN parseWhereQuery(query)
    ELSE parseSimpleMatchQuery(query)

\* Variant: the prefix test is made on the query as given, in its own case.
ParseQuery_CaseSensitive(cypherQuery) ==
    LET query == TrimSpace(cypherQuery) IN
    IF HasPrefix(query, strMATCH) THEN parseMatchQuery(cypherQuery)
    ELSE IF HasPrefix(query, strSELECT) THEN Translated(cypherQuery)
    ELSE Rejected(ErrUnsupportedQuery)

ParseQuery(cypherQuery) ==
    LET query == ToUpper(TrimSpace(cypherQuery)) IN
    IF HasPrefix(query, strMATCH) THEN parseMatchQuery(cypherQuery)
    ELSE IF HasPrefix(query, strSELECT) THEN Translated(cypherQuery)
    ELSE Rejected(ErrUnsupportedQuery)

\* ---------------------------------------------------------- the queries
\* The labels a MATCH pattern may carry: the four mapped ones, one that has
\* a mapped label as a prefix, and one that is not mapped at all.
lblClaim == <<"C", "l", "a", "i", "m">>
lblAgent == <<"A", "g", "e", "n", "t">>
lblRun == <<"R", "u", "n">>
lblArtifact == <<"A", "r", "t", "i", "f", "a", "c", "t">>
lblClaimant == <<"C", "l", "a", "i", "m", "a", "n", "t">>
lblPerson == <<"P", "e", "r", "s", "o", "n">>

Labels == {lblClaim, lblAgent, lblRun, lblArtifact, lblClaimant, lblPerson}

\* The literals a WHERE condition may compare with: a plain one, one that
\* holds the text of a label, and one that holds the text of a qualifier.
litPlanner == <<"p", "l", "a", "n", "n", "e", "r">>
litLabel == <<":", "C", "l", "a", "i", "m">>
litQualified == <<"n", ".", "b">>

Literals == {litPlanner, litLabel, litQualified}

\* MATCH (var:label) [WHERE cond [AND cond]] RETURN var | COUNT(var), in
\* either case of the MATCH keyword and of the other keywords, with or
\* without leading white space.
MatchQueries ==
    [kind : {"match"}, lead : {<<>>, <<" ">>},
     keyword : {<<"M", "A", "T", "C", "H">>, <<"m", "a", "t", "c", "h">>},
     var : {<<"n">>, <<"a">>}, label : Labels,
     where : {"none", "single", "compound"}, literal : Literals,
     projection : {"var", "COUNT"}, others : {"upper", "lower"}, raw : {<<>>}]

\* Texts that are no MATCH query: native queries, other statements, the
\* empty text.
RawTexts ==
    {<<"S", "E", "L", "E", "C", "T", " ", "*", " ", "F", "R", "O", "M",
       " ", "r", "u", "n", "s">>,
     <<" ", "s", "e", "l", "e", "c", "t", " ", "1">>,
     <<"S", "E", "L", "E", "C", "T", "E", "D">>,
     <<"D", "R", "O", "P", " ", "T", "A", "B", "L", "E", " ", "r", "u",
       "n", "s">>,
     <<"R", "E", "T", "U", "R", "N", " ", "n">>,
     <<>>,
     <<" ", " ">>,
     <<"M", "A", "T", "C", "H", "E", "D">>}

RawQueries ==
    [kind : {"raw"}, lead : {<<>>}, keyword : {<<>>}, var : {<<>>},
     label : {<<>>}, where : {"none"}, literal : {<<>>},
     projection : {"var"}, others : {"upper"}, raw : RawTexts]

\* var.field = "literal"
Condition(var, field, literal) ==
    var \o <<".">> \o field \o <<" ", "=", " ">> \o strDoubleQuote \o literal
        \o strDoubleQuote

fldName == <<"n", "a", "m", "e">>
fldType == <<"t", "y", "p", "e">>
litLlm == <<"l", "l", "m">>

\* The keyword as the query writes it: in upper or in lower case.
Keyword(q, upper) ==
    IF q.others = "upper" THEN upper
    ELSE [i \in DOMAIN upper |->
             IF \E c \in DOMAIN UpperOf : UpperOf[c] = upper[i]
             THEN CHOOSE c \in DOMAIN UpperOf : UpperOf[c] = upper[i]
             ELSE upper[i]]

WhereText(q) ==
    IF q.where = "none" THEN <<>>
    ELSE IF q.where = "single"
    THEN Keyword(q, <<" ", "W", "H", "E", "R", "E", " ">>)
            \o Condition(q.var, fldName, q.literal)
    ELSE Keyword(q, <<" ", "W", "H", "E", "R", "E", " ">>)
            \o Condition(q.var, fldName, q.literal)
            \o Keyword(q, <<" ", "A", "N", "D", " ">>)
            \o Condition(q.var, fldType, litLlm)

ProjectionText(q) ==
    IF q.projection = "COUNT"
    THEN Keyword(q, strCOUNT) \o <<"(">> \o q.var \o <<")">>
    ELSE q.var

\* The text of a query, as typed on the command line.
Text(q) ==
    IF q.kind = "raw" THEN q.raw
    ELSE q.lead \o q.keyword \o <<" ", "(">> \o q.var \o <<":">> \o q.label
            \o <<")">> \o WhereText(q)
            \o Keyword(q, <<" ", "R", "E", "T", "U", "R", "N", " ">>)
            \o ProjectionText(q)

\* No invocation of ExecuteWorkflow; one query is given to the translator.
InitParse ==
    /\ InitRuns({[p \in Procs |-> Nil]}, {[p \in Procs |-> PlainVariables]})
    /\ kgQuery \in {[query |-> q, parsed |-> Nil] : q \in MatchQueries \cup RawQueries}
    /\ spans = EmptyMap

\* ParseQuery is called on the query and returns.
Translate ==
    /\ kgQuery # Nil
    /\ kgQuery.parsed = Nil
    /\ kgQuery' = [kgQuery EXCEPT !.parsed = Some(ParseQuery(Text(kgQuery.query)))]
    /\ UNCHANGED <<spans, workflow, variables, pc, runID, idx, progress,
                   executedSteps, stepResults, result, agent, ret, calls,
                   prompts, faults, ctx, now, runs, artifacts>>

NextParse == Translate

ParseSpec == InitParse /\ [][NextParse]_vars

\* ======================================================================
\* Tracing spans (Driver.CreateSpan, Driver.UpdateSpan)
\* ======================================================================
\* In SpanSpec the clock now counts milliseconds.
SpanIDs == {"s1", "s2"}

SpanStatuses == {"completed", "failed"}

\* INSERT INTO spans: the primary key rejects an id already present; the
\* row has no end time and no duration yet.
CreateSpan(id, startTime) ==
    /\ id \notin DOMAIN spans
    /\ spans' = spans @@ (id :> [start_time |-> startTime, end_time |-> Nil,
                                 duration_ms |-> Nil, status |-> "running"])

\* UPDATE spans ... WHERE id = ?: duration is time.Until(endTime), the time
\* from the call to endTime, in milliseconds.
UpdateSpan(spanID, endTime, status) ==
    LET duration == endTime - now IN
    spans' = IF spanID \in DOMAIN spans
             THEN [spans EXCEPT ![spanID] = [@ EXCEPT !.end_time = Some(endTime),
                                                      !.duration_ms = Some(duration),
                                                      !.status = status]]
             ELSE spans

\* A traced unit of work starts: its span is created with the current time
\* as start time.
OpenSpan ==
    /\ \E id \in SpanIDs : CreateSpan(id, now)
    /\ UNCHANGED <<kgQuery, workflow, variables, pc, runID, idx, progress,
                   executedSteps, stepResults, result, agent, ret, calls,
                   prompts, faults, ctx, now, runs, artifacts>>

\* A traced unit of work that ended at endTime is closed, then or later.
CloseSpan ==
    /\ \E id \in SpanIDs, endTime \in 0..now, status \in SpanStatuses :
          /\ id \in DOMAIN spans => endTime >= spans[id].start_time
          /\ UpdateSpan(id, endTime, status)
    /\ UNCHANGED <<kgQuery, workflow, variables, pc, runID, idx, progress,
                   executedSteps, stepResults, result, agent, ret, calls,
                   prompts, faults, ctx, now, runs, artifacts>>

\* A millisecond of wall-clock time passes.
Elapse ==
    /\ now < MaxSpanClock
    /\ now' = now + 1
    /\ UNCHANGED <<spans, kgQuery, workflow, variables, pc, runID, idx, progress,
                   executedSteps, stepResults, result, agent, ret, calls,
                   prompts, faults, ctx, runs, artifacts>>

\* No invocation of ExecuteWorkflow, no kg query, no span yet.
InitSpans == InitWith({[p \in Procs |-> Nil]}, {[p \in Procs |-> PlainVariables]})

NextSpans == OpenSpan \/ CloseSpan \/ Elapse

SpanSpec == InitSpans /\ [][NextSpans]_vars

\* ------------------------------------------- concurrent invocations
MaxConcSteps == 1
MaxClock == 1

\* A second of wall-clock time passes.
Tick ==
    /\ now < MaxClock
    /\ now' = now + 1
    /\ UNCHANGED <<spans, kgQuery, workflow, variables, pc, runID, idx, progress, executedSteps,
                   stepResults, result, agent, ret, calls, prompts, faults,
                   ctx, runs, artifacts>>

\* Two invocations on the same Store, each given a short workflow.
InitConc ==
    InitWith([Procs -> {Some(w) : w \in {v \in Workflow : Len(v) <= MaxConcSteps}}],
             {[p \in Procs |-> PlainVariables]})

NextConc == Next \/ Tick

ConcSpec == InitConc /\ [][NextConc]_vars

\* ======================================================================
\* Properties
\* ======================================================================
Started(p) == pc[p] # "off"

Returned(p) == pc[p] = "returned"

\* Positions of the call history of p holding an operation op.
At(p, op) == {i \in 1..Len(calls[p]) : calls[p][i].op = op}

\* C1: when the execution of a step begins (executeStep is entered, before
\* the agent lookup and the provider call), every name in its dependsOn is
\* in the executed set, and that name was put there by an earlier
\* executeStep call of the same run that returned a nil error. This holds
\* for every workflow, cyclic, dangling or with duplicate names.
C1_DependenciesExecutedFirst ==
    \A p \in Procs :
        /\ \A i \in At(p, "executeStep") :
              \A dep \in Steps(p)[calls[p][i].i].DependsOn :
                 \E j \in 1..(i - 1) :
                    calls[p][j].op = "executed" /\ calls[p][j].name = dep
        /\ pc[p] = "generate" => step(p).DependsOn \subseteq executedSteps[p]

\* A step with two dependencies has entered executeStep.
C1_Witness ==
    \E i \in At(1, "executeStep") :
        Cardinality(Steps(1)[calls[1][i].i].DependsOn) = 2

\* ---- vocabulary of the dependency graph of a workflow w
Names(w) == {w[i].Name : i \in DOMAIN w}

UniqueNames(w) == \A i, j \in DOMAIN w : w[i].Name = w[j].Name => i = j

\* The dependsOn entries of the steps named n.
DepsOf(w, n) == UNION {w[i].DependsOn : i \in {k \in DOMAIN w : w[k].Name = n}}

RECURSIVE Closure(_, _, _)
Closure(w, S, k) ==
    IF k = 0 THEN S ELSE Closure(w, S \cup UNION {DepsOf(w, n) : n \in S}, k - 1)

\* Every name the steps named n depend on, directly or transitively.
TransDeps(w, n) == Closure(w, DepsOf(w, n), Len(w))

NoDangling(w) == \A i \in DOMAIN w : w[i].DependsOn \subseteq Names(w)

Acyclic(w) == \A n \in Names(w) : n \notin TransDeps(w, n)

ValidWorkflow(w) == UniqueNames(w) /\ NoDangling(w) /\ Acyclic(w)

\* One invocation, given any workflow within the bounds that declares no
\* step name twice (the data model's rule for a workflow definition).
InitUnique ==
    InitWith({[p \in Procs |-> IF p = 1 THEN Some(w) ELSE Nil] :
                 w \in {v \in Workflow : UniqueNames(v)}},
             {[p \in Procs |-> PlainVariables]})

\* Every invocation that can take a step eventually takes one: a call of
\* ExecuteWorkflow runs until it returns, provided every provider and
\* store call returns.
FairSpec == InitUnique /\ [][Next]_vars /\ WF_vars(Next)

\* CreateRun succeeded for the invocation.
RunCreated(p) == \E i \in At(p, "createRun") : ret[p].err # ErrCreateRun

\* Some executeStep call of the invocation returned an error (it has no
\* "executed" entry although the invocation has returned).
StepErrored(p) ==
    \E i \in At(p, "executeStep") :
        \A j \in At(p, "executed") : calls[p][j].i # calls[p][i].i \/ j < i

ReturnedCompleted(p) ==
    /\ Returned(p)
    /\ ret[p].err = ""
    /\ ret[p].result # Nil
    /\ ret[p].result[1].Status = "completed"

\* C2: a run (CreateRun succeeded) of a workflow with unique step names,
\* no dangling dependsOn entry and an acyclic dependency graph, in which no
\* executeStep call returns an error, eventually returns; it then has
\* entered executeStep for every declared step and returns a result with
\* status completed and a nil error, not the stall error, in whatever
\* order the steps are declared.
C2_ValidWorkflowCompletes ==
    \A p \in Procs :
        (Started(p) /\ ValidWorkflow(Steps(p)))
            ~> /\ Returned(p)
               /\ (RunCreated(p) /\ ~StepErrored(p)) =>
                     /\ ReturnedCompleted(p)
                     /\ executedSteps[p] = Names(Steps(p))
                     /\ {calls[p][i].i : i \in At(p, "executeStep")} = DOMAIN Steps(p)

\* A three-step chain declared in reverse order has returned completed.
C2_Witness ==
    /\ ReturnedCompleted(1)
    /\ Len(Steps(1)) = 3
    /\ ValidWorkflow(Steps(1))
    /\ Steps(1)[1].DependsOn = {Steps(1)[2].Name}
    /\ Steps(1)[2].DependsOn = {Steps(1)[3].Name}

\* ---- C3
\* Positions of the steps of w that can never become runnable: a step with
\* a dependsOn entry naming no declared step, a step on a dependency cycle
\* (a self-dependency included), or a step that transitively depends on
\* such a step.
Blocked(w) ==
    {i \in DOMAIN w :
        \/ ~(TransDeps(w, w[i].Name) \subseteq Names(w))
        \/ \E n \in TransDeps(w, w[i].Name) \cup {w[i].Name} : n \in TransDeps(w, n)}

\* a depends on b, b depends on a.
TwoStepCycle(w) ==
    /\ Len(w) = 2
    /\ w[1].Name # w[2].Name
    /\ w[1].DependsOn = {w[2].Name}
    /\ w[2].DependsOn = {w[1].Name}

\* Step i of the run of p was never executed and has no artifact.
NeverExecuted(p, i) ==
    /\ \A k \in At(p, "executeStep") : calls[p][k].i # i
    /\ Steps(p)[i].Name \notin executedSteps[p]
    /\ Steps(p)[i].Name \notin DOMAIN stepResults[p]
    /\ \A id \in DOMAIN artifacts : artifacts[id].StepName # Steps(p)[i].Name

\* C3 as stated, read for the runs (CreateRun succeeded) of workflows with
\* unique step names: a workflow with a dangling dependency or a cycle
\* makes ExecuteWorkflow return the stall error, and none of its blocked
\* steps is executed or gets an artifact.
C3_AsStated ==
    \A p \in Procs :
        (Started(p) /\ UniqueNames(Steps(p)) /\ Blocked(Steps(p)) # {}) =>
            /\ \A i \in Blocked(Steps(p)) : NeverExecuted(p, i)
            /\ (Returned(p) /\ RunCreated(p)) => ret[p].err = ErrStalled

\* C3 (amended): for a workflow with unique step names that has a dangling
\* dependency or a cycle, no blocked step is ever executed and no artifact
\* is created for it; a run of it (CreateRun succeeded) never returns
\* completed: it returns the stall error, unless an executeStep call of a
\* step outside the blocked ones returned an error first, and then it
\* returns that error with status failed. For the two-step cycle no step is
\* executed, no artifact is created and the run returns the stall error.
C3_BlockedStepsNeverRun ==
    \A p \in Procs :
        (Started(p) /\ UniqueNames(Steps(p)) /\ Blocked(Steps(p)) # {}) =>
            /\ \A i \in Blocked(Steps(p)) : NeverExecuted(p, i)
            /\ (Returned(p) /\ RunCreated(p)) =>
                  \/ ret[p].err = ErrStalled /\ ret[p].result = Nil /\ ~StepErrored(p)
                  \/ /\ StepErrored(p)
                     /\ ret[p].err \in {ErrNoRows, ErrGenerate}
                     /\ ret[p].result[1].Status = "failed"
            /\ TwoStepCycle(Steps(p)) =>
                  /\ At(p, "executeStep") = {}
                  /\ executedSteps[p] = {}
                  /\ artifacts = EmptyMap
                  /\ (Returned(p) /\ RunCreated(p)) => ret[p].err = ErrStalled

\* A run returned the stall error after executing the one step that is
\* not blocked; of the other two, one is on a cycle and one is on no cycle
\* but depends on the first.
C3_Witness ==
    /\ Returned(1)
    /\ ret[1].err = ErrStalled
    /\ UniqueNames(Steps(1))
    /\ Cardinality(Blocked(Steps(1))) = 2
    /\ Cardinality(executedSteps[1]) = 1
    /\ artifacts # EmptyMap
    /\ \E i \in Blocked(Steps(1)) :
          Steps(1)[i].Name \in TransDeps(Steps(1), Steps(1)[i].Name)
    /\ \E i \in Blocked(Steps(1)) :
          Steps(1)[i].Name \notin TransDeps(Steps(1), Steps(1)[i].Name)

\* A run of a two-step workflow returned the stall error: one step names a
\* step that is not declared, the other depends on the first.
C3_WitnessDangling ==
    /\ Returned(1)
    /\ ret[1].err = ErrStalled
    /\ UniqueNames(Steps(1))
    /\ Acyclic(Steps(1))
    /\ Cardinality(Blocked(Steps(1))) = 2
    /\ \E i \in Blocked(Steps(1)) : Steps(1)[i].DependsOn \subseteq Names(Steps(1))

\* ---- C4
\* C4: within one run each step name is executed at most once: executeStep
\* is entered, the provider is invoked and the name is marked executed at
\* most once per step name, and once a name is marked executed no later
\* entry of the call history executes a step of that name.
C4_AtMostOnce ==
    \A p \in Procs :
        /\ \A op \in {"executeStep", "Generate", "executed"} :
              \A i, j \in At(p, op) : calls[p][i].name = calls[p][j].name => i = j
        /\ \A i \in At(p, "executed") :
              \A j \in At(p, "executeStep") \cup At(p, "Generate") :
                 j > i => calls[p][j].name # calls[p][i].name

\* A workflow declaring one name twice was scanned again after that name
\* was marked executed.
C4_Witness ==
    /\ Returned(1)
    /\ \E i, j \in DOMAIN Steps(1) :
          /\ i # j
          /\ Steps(1)[i].Name = Steps(1)[j].Name
          /\ Steps(1)[i].Name \in executedSteps[1]
    /\ Cardinality(executedSteps[1]) = 2

\* ---- C5
\* Positions of the executeStep calls that returned an error (meaningful
\* once the invocation has returned).
ErroredAt(p) ==
    {i \in At(p, "executeStep") :
        \A j \in At(p, "executed") : calls[p][j].i # calls[p][i].i \/ j < i}

\* C5: when an executeStep call fails on the agent lookup or on the
\* provider's Generate, the run executes no further step (nothing follows
\* the failing call in the call history but its own Generate call and one
\* updateRunStatus call with status failed and the error's message), and
\* ExecuteWorkflow returns that error together with a result of status
\* failed whose end time, duration and error are set.
C5_StepFailureAbortsRun ==
    \A p \in Procs :
        (Returned(p) /\ StepErrored(p)) =>
            LET k == CHOOSE i \in ErroredAt(p) : TRUE
                n == Len(calls[p])
                upd == Ev("updateRunStatus", 0, "", "failed", ret[p].err)
                gen == Ev("Generate", calls[p][k].i, calls[p][k].name, "", "")
            IN /\ Cardinality(ErroredAt(p)) = 1
               /\ \/ SubSeq(calls[p], k + 1, n) = <<upd>> /\ ret[p].err = ErrNoRows
                  \/ SubSeq(calls[p], k + 1, n) = <<gen, upd>> /\ ret[p].err = ErrGenerate
               /\ At(p, "updateRunStatus") = {n}
               /\ calls[p][k].name \notin executedSteps[p]
               /\ ret[p].result # Nil
               /\ ret[p].result[1].Status = "failed"
               /\ ret[p].result[1].Error = ret[p].err
               /\ ret[p].result[1].EndTime # Nil
               /\ ret[p].result[1].Duration # Nil

\* The first step failed in the provider call; a later step without any
\* dependency was not executed.
C5_Witness ==
    /\ Returned(1)
    /\ ret[1].err = ErrGenerate
    /\ Len(Steps(1)) = 3
    /\ UniqueNames(Steps(1))
    /\ calls[1][CHOOSE i \in ErroredAt(1) : TRUE].i = 1
    /\ Steps(1)[3].DependsOn = {}
    /\ NeverExecuted(1, 3)

\* ---- C6
\* A step of the workflow whose agent is stored but declares a provider
\* that is not registered.
HasUnregisteredProvider(s) ==
    /\ GetAgent(s.Agent) # Nil
    /\ GetAgent(s.Agent)[1].modelProvider \notin providers

\* C6: if executeStep is entered for a step whose agent declares an
\* unregistered provider, that step is not marked executed, no later step
\* is executed, and ExecuteWorkflow returns a non-nil error with a run
\* that is failed, never completed.
C6_MissingProviderFailsStep ==
    \A p \in Procs :
        \A k \in At(p, "executeStep") :
            HasUnregisteredProvider(Steps(p)[calls[p][k].i]) =>
                /\ \A j \in At(p, "executed") : calls[p][j].i # calls[p][k].i
                /\ \A j \in At(p, "executeStep") : j <= k
                /\ Returned(p) => (ret[p].err # "" /\ ~ReturnedCompleted(p))

\* ---- C7
\* C7: the stored status of a Run row only ever changes from running to
\* completed or from running to failed, and a row is never removed: no
\* step of any invocation changes the status of a row that is completed
\* or failed.
C7_RunStatusOneWay ==
    [][\A id \in DOMAIN runs :
          /\ id \in DOMAIN runs'
          /\ runs'[id].status # runs[id].status =>
                /\ runs[id].status = "running"
                /\ runs'[id].status \in {"completed", "failed"}]_vars

\* Two invocations have returned; one left its Run row completed, the
\* other, started within the same second, could not create its row.
C7_Witness ==
    /\ \A p \in Procs : Returned(p)
    /\ runID[1] # Nil
    /\ runID[1] = runID[2]
    /\ ret[2].err = ErrCreateRun
    /\ runID[1][1] \in DOMAIN runs
    /\ runs[runID[1][1]].status = "completed"

\* ---- C8
\* C8: every invocation whose CreateRun succeeded has, when it returns,
\* called updateRunStatus exactly once, on every exit path.
C8_ExactlyOneStatusUpdate ==
    \A p \in Procs :
        (Returned(p) /\ RunCreated(p)) => Cardinality(At(p, "updateRunStatus")) = 1

\* ---- C9
\* C9: when ExecuteWorkflow returns the stall error it has made no
\* updateRunStatus call, and the Run row it created is as CreateRun wrote
\* it: status running, no completion time, duration, error message or
\* output.
C9_StallLeavesRunRunning ==
    \A p \in Procs :
        (Returned(p) /\ ret[p].err = ErrStalled) =>
            /\ At(p, "updateRunStatus") = {}
            /\ runID[p][1] \in DOMAIN runs
            /\ runs[runID[p][1]] = InsertRun(EmptyMap, runID[p][1], result[p][1].StartTime)[runID[p][1]]
            /\ runs[runID[p][1]].status = "running"
            /\ runs[runID[p][1]].completedAt = Nil
            /\ runs[runID[p][1]].durationMs = Nil
            /\ runs[runID[p][1]].errorMessage = Nil

\* A run stalled after it had executed a step and written its artifact.
C9_Witness ==
    /\ Returned(1)
    /\ ret[1].err = ErrStalled
    /\ executedSteps[1] # {}
    /\ artifacts # EmptyMap

\* ---- C10
\* C10: whenever ExecuteWorkflow returns a result (status completed or
\* failed), the Run row of its run id has the same status and, on failure,
\* the returned error's message as errorMessage, whatever the Store does,
\* also when the updateRunStatus call returns an error.
C10_StoreAgreesWithResult ==
    \A p \in Procs :
        (Returned(p) /\ ret[p].result # Nil) =>
            /\ runID[p][1] \in DOMAIN runs
            /\ runs[runID[p][1]].status = ret[p].result[1].Status
            /\ ret[p].result[1].Status = "failed" =>
                  runs[runID[p][1]].errorMessage = Some(ret[p].err)

\* ---- C11
\* The createArtifact calls of the invocation that the Store made fail:
\* their positions in the call history.
ArtifactFaultsAt(p) ==
    {k \in At(p, "createArtifact") : <<"createArtifact", calls[p][k].name>> \in faults[p]}

\* C11: when the provider call of a step succeeded and the createArtifact
\* call for it failed, no artifact is stored for the step, yet executeStep
\* returns a nil error: the next entry of the call history marks the step
\* executed with status completed, the step result held by the run and by
\* the returned result has status completed and the provider's text as
\* output, and a run in which no executeStep call returned an error then
\* ends completed, having executed every step that depends on it.
C11_ArtifactBestEffort ==
    \A p \in Procs :
        \A k \in ArtifactFaultsAt(p) :
            LET name == calls[p][k].name IN
            /\ \A id \in DOMAIN artifacts : artifacts[id].StepName # name
            /\ k < Len(calls[p])
            /\ calls[p][k + 1] = Ev("executed", calls[p][k].i, name, "completed", "")
            /\ name \in executedSteps[p]
            /\ stepResults[p][name].Status = "completed"
            /\ stepResults[p][name].Output = Some(Output(name))
            /\ result[p][1].Steps[name] = stepResults[p][name]
            /\ (Returned(p) /\ ~StepErrored(p) /\ ret[p].err # ErrStalled) =>
                  /\ ReturnedCompleted(p)
                  /\ ret[p].result[1].Steps[name].Status = "completed"
                  /\ ret[p].result[1].Steps[name].Output = Some(Output(name))
                  /\ \A i \in DOMAIN Steps(p) :
                        name \in Steps(p)[i].DependsOn =>
                           Steps(p)[i].Name \in executedSteps[p]

\* A run returned completed although the artifact write of its first step
\* failed; the second step, which depends on the first, was executed after
\* it and its artifact is stored.
C11_Witness ==
    /\ ReturnedCompleted(1)
    /\ Len(Steps(1)) >= 2
    /\ Steps(1)[2].DependsOn = {Steps(1)[1].Name}
    /\ Steps(1)[1].Name # Steps(1)[2].Name
    /\ \E k \in ArtifactFaultsAt(1) : calls[1][k].i = 1
    /\ \E j \in At(1, "executed") : calls[1][j].i = 2 /\ calls[1][j].status = "completed"
    /\ \E id \in DOMAIN artifacts : artifacts[id].StepName = Steps(1)[2].Name

\* ---- C12
\* The entries of the call history made by executeStep.
StepOps == {"executeStep", "Generate", "createArtifact", "executed"}

\* C12: every agent lookup, provider call and artifact write of an
\* invocation comes after its createRun call, which succeeded: the Run row
\* of its run id is stored, with status running for as long as the
\* invocation has not returned. If createRun fails, ExecuteWorkflow returns
\* the create-run error and no result, and createRun is the only call it
\* made: no step is executed, no prompt rendered, and alone on the Store
\* it leaves the runs and artifacts tables empty.
C12_RunCreatedFirst ==
    \A p \in Procs :
        /\ \A k \in 1..Len(calls[p]) :
              calls[p][k].op \in StepOps =>
                 /\ k > 1
                 /\ calls[p][1] = Ev("createRun", 0, "", "running", "")
                 /\ <<"createRun", "">> \notin faults[p]
                 /\ ret[p].err # ErrCreateRun
                 /\ runID[p][1] \in DOMAIN runs
        /\ pc[p] \in {"loop", "scan", "generate"} =>
              /\ runID[p][1] \in DOMAIN runs
              /\ runs[runID[p][1]].status = "running"
        /\ (Returned(p) /\ ret[p].err = ErrCreateRun) =>
              /\ calls[p] = <<Ev("createRun", 0, "", "running", "")>>
              /\ ret[p].result = Nil
              /\ executedSteps[p] = {}
              /\ stepResults[p] = EmptyMap
              /\ prompts[p] = EmptyMap
              /\ (\A q \in Procs \ {p} : ~Started(q)) =>
                    (runs = EmptyMap /\ artifacts = EmptyMap)

\* createRun failed for a workflow of three steps whose first step is
\* runnable, and the invocation has returned.
C12_Witness ==
    /\ Returned(1)
    /\ ret[1].err = ErrCreateRun
    /\ <<"createRun", "">> \in faults[1]
    /\ Len(Steps(1)) = 3
    /\ Steps(1)[1].DependsOn = {}
    /\ Steps(1)[1].Agent = "planner"

\* ---- C13
\* The position in the call history at which the pass containing position
\* k began (0 when no pass has begun before k).
PassOf(p, k) ==
    LET before == {q \in At(p, "pass") : q < k} IN
    IF before = {} THEN 0 ELSE CHOOSE q \in before : \A r \in before : r <= q

\* The names marked executed before position q of the call history.
ExecutedBefore(p, q) == {calls[p][j].name : j \in {r \in At(p, "executed") : r < q}}

\* Step s of the workflow is runnable when the pass that begins at q begins.
RunnableAtPassStart(p, q, s) ==
    /\ Steps(p)[s].Name \notin ExecutedBefore(p, q)
    /\ Steps(p)[s].DependsOn \subseteq ExecutedBefore(p, q)

\* C13: the executeStep calls made within one pass over workflow.Steps are
\* made in increasing order of the steps' positions in the list; and when
\* a step that was runnable at the start of the pass is listed before a
\* step executed in that pass, then executeStep was entered earlier in the
\* pass for it (or for an earlier-listed step of the same name, which
\* marks the name executed).
C13_PassFollowsDeclaredOrder ==
    \A p \in Procs :
        /\ \A j1, j2 \in At(p, "executeStep") :
              (j1 < j2 /\ PassOf(p, j1) = PassOf(p, j2)) =>
                  calls[p][j1].i < calls[p][j2].i
        /\ \A j \in At(p, "executeStep") :
              \A s \in 1..(calls[p][j].i - 1) :
                 RunnableAtPassStart(p, PassOf(p, j), s) =>
                    \E e \in At(p, "executeStep") :
                       /\ PassOf(p, j) < e
                       /\ e < j
                       /\ calls[p][e].i <= s
                       /\ calls[p][e].name = Steps(p)[s].Name

\* The first pass executed the second and then the third step, both
\* runnable when it began, and skipped the first, which depends on the
\* third; a second pass executed the first.
C13_Witness ==
    /\ ReturnedCompleted(1)
    /\ Len(Steps(1)) = 3
    /\ Cardinality(At(1, "pass")) = 2
    /\ Steps(1)[1].DependsOn = {Steps(1)[3].Name}
    /\ \E j2, j3, j1 \in At(1, "executeStep") :
          /\ calls[1][j2].i = 2 /\ calls[1][j3].i = 3 /\ calls[1][j1].i = 1
          /\ j2 < j3 /\ j3 < j1
          /\ PassOf(1, j2) = PassOf(1, j3)
          /\ PassOf(1, j3) < PassOf(1, j1)

\* ---- C14
MaxDetSteps == 2

\* Two invocations given the same workflow (unique step names, at most one
\* dependency per step) and the same variables map, on the same Store.
InitDet ==
    InitWith({[p \in Procs |-> Some(w)] :
                 w \in {v \in Workflow :
                           /\ Len(v) <= MaxDetSteps
                           /\ UniqueNames(v)
                           /\ \A i \in DOMAIN v : Cardinality(v[i].DependsOn) <= 1}},
             {[p \in Procs |-> vs] : vs \in {PlainVariables, NestedVariables}})

DetSpec == InitDet /\ [][NextConc]_vars

IsExecuteStep(e) == e.op = "executeStep"

\* The names of the steps the invocation entered executeStep for, in order.
ExecutedSequence(p) ==
    LET es == SelectSeq(calls[p], IsExecuteStep) IN [k \in DOMAIN es |-> es[k].name]

\* C14: two runs of the same workflow with the same variables, the same
\* agents and the same provider outputs, both returned completed, entered
\* executeStep for the same step names in the same order, sent the same
\* prompt to the provider for each step and stored the same content for
\* each step's artifact, also when a variable's value holds placeholder
\* text.
C14_RunsAgree ==
    (ReturnedCompleted(1) /\ ReturnedCompleted(2)) =>
        /\ ExecutedSequence(1) = ExecutedSequence(2)
        /\ prompts[1] = prompts[2]
        /\ \A id1, id2 \in DOMAIN artifacts :
              artifacts[id1].StepName = artifacts[id2].StepName =>
                 artifacts[id1].Content = artifacts[id2].Content

\* ---- C15
\* The ids of the stored artifacts that carry the run id of the invocation.
ArtifactsOf(p) ==
    IF runID[p] = Nil THEN {}
    ELSE {id \in DOMAIN artifacts : artifacts[id].RunID = runID[p][1]}

\* C15: as long as the Store made no artifact write of a run fail, the
\* artifacts carrying its run id are exactly one for each step whose
\* provider call succeeded (each createArtifact entry of the call history),
\* holding that step's name and its output as content, and none for any
\* other step (failed or never run); and no step of the executor changes or
\* removes an artifact that is stored.
C15_OneArtifactPerCompletedStep ==
    /\ [](\A p \in Procs :
            ArtifactFaultsAt(p) = {} =>
               /\ \A k \in At(p, "createArtifact") :
                     LET name == calls[p][k].name
                         ids == {id \in ArtifactsOf(p) : artifacts[id].StepName = name}
                     IN /\ Cardinality(ids) = 1
                        /\ \A id \in ids :
                              /\ artifacts[id].Content = Output(name)
                              /\ Some(artifacts[id].Content) = stepResults[p][name].Output
               /\ \A id \in ArtifactsOf(p) :
                     \E k \in At(p, "createArtifact") :
                        calls[p][k].name = artifacts[id].StepName)
    /\ [][\A id \in DOMAIN artifacts :
             id \in DOMAIN artifacts' /\ artifacts'[id] = artifacts[id]]_vars

\* A run of three steps has returned: two steps completed and have their
\* artifact, the third, whose provider is not registered, has none.
C15_Witness ==
    /\ Returned(1)
    /\ faults[1] = {}
    /\ Cardinality(At(1, "createArtifact")) = 2
    /\ Cardinality(ArtifactsOf(1)) = 2
    /\ \E i \in DOMAIN Steps(1) :
          /\ Steps(1)[i].Name \in DOMAIN stepResults[1]
          /\ stepResults[1][Steps(1)[i].Name].Status = "failed"
          /\ \A id \in ArtifactsOf(1) : artifacts[id].StepName # Steps(1)[i].Name

\* ---- C16
\* Every step after the first depends on its predecessor alone, and its
\* input template holds the placeholder of the predecessor's output.
LinearChain(w) ==
    /\ Len(w) >= 2
    /\ UniqueNames(w)
    /\ w[1].DependsOn = {}
    /\ \A i \in 2..Len(w) :
          /\ w[i].DependsOn = {w[i - 1].Name}
          /\ Contains(w[i].Input, <<OutPh(w[i - 1].Name)>>)

\* C16: a run of a linear chain whose agents and providers all resolve and
\* whose provider calls succeed returns completed, having executed the
\* steps in chain order, and the step result it returns for every step
\* after the first has an input field that contains the output captured
\* for the predecessor.
C16_ChainInputCarriesOutput ==
    \A p \in Procs :
        ( /\ Returned(p)
          /\ RunCreated(p)
          /\ LinearChain(Steps(p))
          /\ ~StepErrored(p)
          /\ \A i \in DOMAIN Steps(p) : Steps(p)[i].Agent = "planner" ) =>
            /\ ReturnedCompleted(p)
            /\ ExecutedSequence(p) = [i \in DOMAIN Steps(p) |-> Steps(p)[i].Name]
            /\ \A i \in 2..Len(Steps(p)) :
                  Contains(ret[p].result[1].Steps[Steps(p)[i].Name].Input,
                           OutputString(ret[p].result[1].Steps[Steps(p)[i - 1].Name]))

\* ---- C17
\* C17: once the context is cancelled while the Generate call of a step is
\* in flight, that call can only return an error: the invocation returns
\* that error with a result of status failed, the last two entries of its
\* call history are that Generate call and one updateRunStatus call with
\* status failed, the step is not marked executed and has no artifact, and
\* the Run row is failed with the error's message unless the Store made
\* that update fail.
C17_CancelFailsRun ==
    \A p \in Procs :
        ctx[p] = "cancelled" =>
            /\ pc[p] \in {"generate", "returned"}
            /\ calls[p][Len(calls[p])].op \in {"Generate", "updateRunStatus"}
            /\ Returned(p) =>
                  LET n == Len(calls[p])
                      name == calls[p][n - 1].name
                  IN /\ calls[p][n - 1].op = "Generate"
                     /\ calls[p][n] = Ev("updateRunStatus", 0, "", "failed", ErrGenerate)
                     /\ ret[p].err = ErrGenerate
                     /\ ret[p].result # Nil
                     /\ ret[p].result[1].Status = "failed"
                     /\ name \notin executedSteps[p]
                     /\ name \notin DOMAIN ret[p].result[1].Steps
                     /\ \A id \in ArtifactsOf(p) : artifacts[id].StepName # name
                     /\ <<"updateRunStatus", "">> \notin faults[p] =>
                           /\ runs[runID[p][1]].status = "failed"
                           /\ runs[runID[p][1]].errorMessage = Some(ErrGenerate)

\* The context was cancelled during the provider call of the second step
\* of three; the run returned failed, is failed in the Store, and the
\* third step, which has no dependency, was never executed.
C17_Witness ==
    /\ Returned(1)
    /\ ctx[1] = "cancelled"
    /\ Len(Steps(1)) = 3
    /\ UniqueNames(Steps(1))
    /\ executedSteps[1] = {Steps(1)[1].Name}
    /\ calls[1][Len(calls[1]) - 1] = Ev("Generate", 2, Steps(1)[2].Name, "", "")
    /\ Steps(1)[3].DependsOn = {}
    /\ NeverExecuted(1, 3)
    /\ runs[runID[1][1]].status = "failed"

\* ---- C18
\* The step and agent names held by the text of an error ExecuteWorkflow
\* returns. executeStep returns the error of GetAgent or of Generate as it
\* received it; the texts that name the agent or provider are written to
\* stepResult.Error only. The driver's and the provider's error texts hold
\* no step or agent name.
NamesIn(err) ==
    IF err \in {"", ErrCreateRun, ErrStalled, ErrNoRows, ErrGenerate} THEN {} ELSE {err}

\* C18: the error ExecuteWorkflow returns when an executeStep call failed
\* names the failing step or its agent.
C18_StepErrorNamesStepOrAgent ==
    \A p \in Procs :
        (Returned(p) /\ StepErrored(p)) =>
            LET k == CHOOSE i \in ErroredAt(p) : TRUE IN
            \/ calls[p][k].name \in NamesIn(ret[p].err)
            \/ Steps(p)[calls[p][k].i].Agent \in NamesIn(ret[p].err)

\* ---- C19
\* C19: when two invocations with distinct run ids share the Store and the
\* Store itself makes no call fail, each run has its Run row and, for each
\* step it recorded as completed, exactly one artifact carrying its run id
\* and the step's name, also when both execute a step of the same name
\* within one second.
C19_RunsDoNotInterfere ==
    ( /\ \A p \in Procs : runID[p] # Nil /\ faults[p] = {}
      /\ runID[1] # runID[2] ) =>
        \A p \in Procs :
            /\ runID[p][1] \in DOMAIN runs
            /\ \A k \in At(p, "executed") :
                  calls[p][k].status = "completed" =>
                     Cardinality({id \in ArtifactsOf(p) :
                                     artifacts[id].StepName = calls[p][k].name}) = 1

\* ---- C20
\* C20: any two invocations on the same Store, as long as the Store itself
\* makes no createRun call fail, derive distinct run ids and both create
\* their Run row, also when they start within the same second.
C20_DistinctRunIds ==
    ( /\ \A p \in Procs : runID[p] # Nil
      /\ \A p \in Procs : <<"createRun", "">> \notin faults[p] ) =>
        /\ runID[1] # runID[2]
        /\ \A p \in Procs : ret[p].err # ErrCreateRun
        /\ \A p \in Procs : runID[p][1] \in DOMAIN runs

\* ---- vocabulary of the kg query translator
\* A query has been given to the translator / the translator has returned.
Asked == kgQuery # Nil

Answered == Asked /\ kgQuery.parsed # Nil

\* What ParseQuery returned for the query.
Answer == kgQuery.parsed[1]

MappedLabels == {lblClaim, lblAgent, lblRun, lblArtifact}

\* The count query and the select over the collection a label is mapped to.
CountSql(label) ==
    CASE label = lblClaim -> sqlCountClaims
      [] label = lblAgent -> sqlCountAgents
      [] label = lblRun -> sqlCountRuns
      [] label = lblArtifact -> sqlCountArtifacts

SelectSql(label) ==
    CASE label = lblClaim -> sqlSelectClaims
      [] label = lblAgent -> sqlSelectAgents
      [] label = lblRun -> sqlSelectRuns
      [] label = lblArtifact -> sqlSelectArtifacts

EntityErrors == {ErrCountEntity, ErrWhereEntity, ErrSimpleEntity}

\* The translator has answered a MATCH query of the family.
AnsweredMatch == Answered /\ kgQuery.query.kind = "match"

\* ---- C21
\* C21: a MATCH query on one of the labels Claim, Agent, Run, Artifact whose
\* projection is the aggregate COUNT translates, without error, to the
\* count query over the collection the label is mapped to, with no filter,
\* whether or not the query has a WHERE clause.
C21_CountOverMappedCollection ==
    ( /\ AnsweredMatch
      /\ kgQuery.query.label \in MappedLabels
      /\ kgQuery.query.projection = "COUNT" ) =>
        /\ Answer.err = ""
        /\ Answer.sql = CountSql(kgQuery.query.label)

\* ---- C22
\* The text of the query, trimmed and case-folded.
Folded(q) == ToUpper(TrimSpace(Text(q)))

\* C22 as stated: every query whose trimmed, case-folded text starts with
\* MATCH is translated, every one that starts with SELECT is returned
\* unchanged, and every other query returns the unsupported-query error and
\* no text.
C22_AsStated ==
    Answered =>
        IF HasPrefix(Folded(kgQuery.query), strMATCH)
        THEN Answer.err = "" /\ Answer.sql # <<>>
        ELSE IF HasPrefix(Folded(kgQuery.query), strSELECT)
        THEN Answer.err = "" /\ Answer.sql = Text(kgQuery.query)
        ELSE Answer.err = ErrUnsupportedQuery /\ Answer.sql = <<>>

\* C22: ParseQuery returns the unsupported-query error exactly for the
\* queries whose trimmed, case-folded text starts neither with MATCH nor
\* with SELECT; a SELECT query is returned unchanged; a MATCH query is
\* handed to the translator, which returns either a translation or an
\* unsupported-entity error; every error comes with no query text.
C22_PrefixDecides ==
    Answered =>
        /\ Answer.err # "" => Answer.sql = <<>>
        /\ IF HasPrefix(Folded(kgQuery.query), strMATCH)
           THEN \/ Answer.err = "" /\ Answer.sql # <<>>
                \/ Answer.err \in EntityErrors
           ELSE IF HasPrefix(Folded(kgQuery.query), strSELECT)
           THEN Answer.err = "" /\ Answer.sql = Text(kgQuery.query)
           ELSE Answer.err = ErrUnsupportedQuery

\* A MATCH query typed in lower case after white space has been translated.
C22_Witness ==
    /\ AnsweredMatch
    /\ kgQuery.query.lead # <<>>
    /\ HasPrefix(Folded(kgQuery.query), strMATCH)
    /\ ~HasPrefix(TrimSpace(Text(kgQuery.query)), strMATCH)
    /\ Answer.err = ""
    /\ Answer.sql = sqlSelectRuns

\* ---- C23
\* The translation is a query over the collection the label is mapped to.
Over(sql, label) ==
    \/ sql = CountSql(label)
    \/ sql = SelectSql(label)
    \/ HasPrefix(sql, SelectSql(label) \o <<" ", "W", "H", "E", "R", "E", " ">>)

\* C23: a MATCH query whose pattern label is Claim, Agent, Run or Artifact
\* is translated against claims, agents, runs or artifacts respectively,
\* and a query whose pattern label is none of the four fails with an
\* unsupported-entity error, whatever else its text holds.
C23_LabelDecidesCollection ==
    AnsweredMatch =>
        IF kgQuery.query.label \in MappedLabels
        THEN Answer.err = "" => Over(Answer.sql, kgQuery.query.label)
        ELSE Answer.err \in EntityErrors /\ Answer.sql = <<>>

\* ---- C24
\* field = 'literal'
NativeCondition(field, literal) ==
    field \o <<" ", "=", " ">> \o strSingleQuote \o literal \o strSingleQuote

\* C24: a MATCH query on a supported label with a single equality WHERE
\* condition and no aggregate translates to the select over the mapped
\* collection filtered by that condition alone, the variable's qualifier
\* stripped whatever the variable is called and the literal single-quoted.
C24_FilteredSelect ==
    ( /\ AnsweredMatch
      /\ kgQuery.query.label \in MappedLabels
      /\ kgQuery.query.where = "single"
      /\ kgQuery.query.projection = "var" ) =>
        /\ Answer.err = ""
        /\ Answer.sql = SelectSql(kgQuery.query.label)
                            \o <<" ", "W", "H", "E", "R", "E", " ">>
                            \o NativeCondition(fldName, kgQuery.query.literal)

\* ---- C25
\* C25: a MATCH query without aggregate whose WHERE clause joins two
\* conditions is rejected with an error and no query text.
C25_CompoundWhereRejected ==
    ( /\ AnsweredMatch
      /\ kgQuery.query.where = "compound"
      /\ kgQuery.query.projection = "var" ) =>
        /\ Answer.err # ""
        /\ Answer.sql = <<>>

\* ---- C26
\* One invocation, given any workflow of up to MaxTermSteps steps: duplicate
\* names, dangling names and cycles included.
InitTerm ==
    InitWith({[p \in Procs |-> IF p = 1 THEN Some(w) ELSE Nil] :
                 w \in {v \in Workflow : Len(v) <= MaxTermSteps}},
             {[p \in Procs |-> PlainVariables]})

\* Every provider and store call returns.
TermSpec == InitTerm /\ [][Next]_vars /\ WF_vars(Next)

\* A workflow of N steps is scanned at most N + 1 times.
PassesBounded ==
    \A p \in Procs :
        Started(p) => Cardinality(At(p, "pass")) <= Len(Steps(p)) + 1

\* A scan pass that is followed by another one has executed a step that was
\* not executed before.
EveryPassProgresses ==
    \A p \in Procs :
        \A i, j \in At(p, "pass") :
            i < j =>
                \E e \in At(p, "executed") :
                    /\ i < e
                    /\ e < j
                    /\ \A f \in At(p, "executed") :
                          f < e => calls[p][f].name # calls[p][e].name

\* C26: provided every provider and store call returns, every invocation of
\* ExecuteWorkflow returns, whatever the workflow (cyclic, dangling and
\* duplicate names included); each scan pass executes a not-yet-executed
\* step or is the last one, and a workflow of N steps gets at most N + 1
\* scan passes.
C26_Terminates ==
    /\ \A p \in Procs : Started(p) ~> Returned(p)
    /\ []PassesBounded
    /\ []EveryPassProgresses

\* A workflow that declares one name twice has returned the stall error
\* after two scan passes, the first of which executed a step.
C26_Witness ==
    /\ Returned(1)
    /\ Len(Steps(1)) = 2
    /\ ~UniqueNames(Steps(1))
    /\ ret[1].err = ErrStalled
    /\ Cardinality(At(1, "pass")) = 2
    /\ At(1, "executed") # {}

\* ---- C27
\* C27: a result returned with status completed has a step map holding
\* exactly the declared step names, every entry with status completed; and
\* at no time does the step map or the executed set hold a step whose
\* result has status failed, so no dependent is unblocked by one.
C27_OnlyCompletedStepsRecorded ==
    \A p \in Procs :
        /\ ReturnedCompleted(p) =>
              /\ DOMAIN ret[p].result[1].Steps = Names(Steps(p))
              /\ \A n \in DOMAIN ret[p].result[1].Steps :
                    ret[p].result[1].Steps[n].Status = "completed"
        /\ \A n \in DOMAIN stepResults[p] : stepResults[p][n].Status # "failed"
        /\ \A n \in executedSteps[p] :
              n \in DOMAIN stepResults[p] /\ stepResults[p][n].Status = "completed"

\* ---- C28
\* The scan of the pass that holds position e of the call history has gone
\* past position j of the step list: a later pass began, or the pass is the
\* current one and its index is beyond j, or it ended the run without a
\* step error.
ScannedPast(p, e, j) ==
    \/ \E q \in At(p, "pass") : q > e
    \/ pc[p] = "loop"
    \/ pc[p] = "scan" /\ idx[p] > j
    \/ pc[p] = "generate" /\ idx[p] > j
    \/ Returned(p) /\ ~StepErrored(p)

\* Every step depends only on steps declared before it.
TopologicallyDeclared(w) ==
    /\ UniqueNames(w)
    /\ \A i \in DOMAIN w : w[i].DependsOn \subseteq {w[k].Name : k \in 1..(i - 1)}

C29_FailedRunHoldsCompletedSteps ==
    \A p \in Procs :
        (Returned(p) /\ StepErrored(p)) =>
            LET k == CHOOSE i \in ErroredAt(p) : TRUE
                m == ret[p].result[1].Steps
            IN /\ ret[p].result # Nil
               /\ DOMAIN m = ExecutedBefore(p, k)
               /\ \A n \in DOMAIN m : m[n].Status = "completed"
               /\ calls[p][k].name \notin DOMAIN m

\* ---- C30
\* C30: when ExecuteWorkflow returns the stall error for a workflow with
\* unique step names, and the Store made no write fail, every step that is
\* not blocked (all its transitive dependencies exist and are on no cycle)
\* has been executed and has an artifact of the run, and the return
\* carries no result.
C30_StallAfterRunnableSteps ==
    \A p \in Procs :
        ( /\ Returned(p)
          /\ ret[p].err = ErrStalled
          /\ UniqueNames(Steps(p))
          /\ faults[p] = {} ) =>
            /\ ret[p].result = Nil
            /\ \A i \in DOMAIN Steps(p) \ Blocked(Steps(p)) :
                  /\ Steps(p)[i].Name \in executedSteps[p]
                  /\ \E x \in At(p, "executed") : calls[p][x].i = i
                  /\ \E id \in ArtifactsOf(p) : artifacts[id].StepName = Steps(p)[i].Name

\* ---- C31
\* Positions of the call history at which executeStep was entered for a
\* step named n.
EnteredFor(p, n) == {k \in At(p, "executeStep") : calls[p][k].name = n}

\* The names the workflow declares more than once.
DuplicateNames(w) ==
    {w[i].Name : i \in {k \in DOMAIN w : \E j \in DOMAIN w : j # k /\ w[j].Name = w[k].Name}}

\* The names marked executed when the pass that began at position q of the
\* call history scanned position i of the step list.
ExecutedAtScan(p, q, i) ==
    ExecutedBefore(p, q) \cup
        {calls[p][e].name : e \in {x \in At(p, "executed") :
                                      PassOf(p, x) = q /\ calls[p][x].i < i}}

\* C31 as stated: a run (CreateRun succeeded) of a workflow that declares a
\* name twice, has no dangling dependency and no cycle, returns the stall
\* error without any status update, having executed exactly one of the
\* steps of each duplicated name.
C31_AsStated ==
    \A p \in Procs :
        ( /\ Returned(p)
          /\ RunCreated(p)
          /\ ~UniqueNames(Steps(p))
          /\ NoDangling(Steps(p))
          /\ Acyclic(Steps(p)) ) =>
            /\ ret[p].err = ErrStalled
            /\ At(p, "updateRunStatus") = {}
            /\ \A n \in DuplicateNames(Steps(p)) :
                  /\ Cardinality(EnteredFor(p, n)) = 1
                  /\ Cardinality({k \in At(p, "executed") : calls[p][k].name = n}) = 1

\* C31: in a run of a workflow that declares a name twice, executeStep is
\* entered at most once for that name and the run never returns completed;
\* when the workflow has no dangling dependency and no cycle, CreateRun
\* succeeded and no executeStep call returned an error, the run returns the
\* stall error without any status update, exactly one step of each
\* duplicated name having been executed: the first one of that name that a
\* scan found runnable.
C31_DuplicateNameStalls ==
    \A p \in Procs :
        (Started(p) /\ ~UniqueNames(Steps(p))) =>
            /\ ~ReturnedCompleted(p)
            /\ \A n \in DuplicateNames(Steps(p)) : Cardinality(EnteredFor(p, n)) <= 1
            /\ ( /\ Returned(p)
                 /\ RunCreated(p)
                 /\ ~StepErrored(p)
                 /\ NoDangling(Steps(p))
                 /\ Acyclic(Steps(p)) ) =>
                   /\ ret[p].err = ErrStalled
                   /\ ret[p].result = Nil
                   /\ At(p, "updateRunStatus") = {}
                   /\ \A n \in DuplicateNames(Steps(p)) :
                         /\ Cardinality(EnteredFor(p, n)) = 1
                         /\ Cardinality({k \in At(p, "executed") : calls[p][k].name = n}) = 1
                         /\ \A k \in EnteredFor(p, n) :
                               \A q \in At(p, "pass") :
                                  \A i \in DOMAIN Steps(p) :
                                     ( /\ Steps(p)[i].Name = n
                                       /\ \/ q < PassOf(p, k)
                                          \/ q = PassOf(p, k) /\ i < calls[p][k].i ) =>
                                         ~(Steps(p)[i].DependsOn \subseteq ExecutedAtScan(p, q, i))

\* A run of three steps, two of them with one name and the third depending
\* on that name, has stalled after executing two steps.
C31_Witness ==
    /\ Returned(1)
    /\ ret[1].err = ErrStalled
    /\ Len(Steps(1)) = 3
    /\ Steps(1)[1].Name = Steps(1)[2].Name
    /\ Steps(1)[3].DependsOn = {Steps(1)[1].Name}
    /\ Cardinality(At(1, "executed")) = 2
    /\ At(1, "updateRunStatus") = {}

\* ---- C32
\* The values a step's agent field takes in AgentSpec: those of AgentRefs,
\* the name of the agent stored under another id, and that id.
AgentFields == AgentRefs \cup {"editor", "agent-editor"}

\* One invocation, given any workflow of up to MaxAgentSteps steps whose
\* agent fields range over AgentFields.
InitAgents ==
    InitWith({[p \in Procs |-> IF p = 1 THEN Some(w) ELSE Nil] :
                 w \in UNION {[1..n -> [Name : StepNames, Agent : AgentFields,
                                        DependsOn : DepSets, Input : {InputTemplate}]] :
                              n \in 0..MaxAgentSteps}},
             {[p \in Procs |-> PlainVariables]})

AgentSpec == InitAgents /\ [][Next]_vars

\* The stored agents whose name is n.
AgentsNamed(n) == {a \in AgentTable : a.name = n}

\* The executeStep call at position k of the call history failed on the
\* agent lookup.
LookupFailedAt(p, k) ==
    /\ k < Len(calls[p])
    /\ calls[p][k + 1].op = "updateRunStatus"
    /\ calls[p][k + 1].msg = ErrNoRows

\* C32: every executeStep call for a step whose agent field is the name of
\* a stored agent passes the agent lookup and works with that agent,
\* whatever the agent's id is; the call fails on the agent lookup exactly
\* when no stored agent has the name.
C32_ResolvedByName ==
    \A p \in Procs :
        \A k \in At(p, "executeStep") :
            LET s == Steps(p)[calls[p][k].i] IN
            IF AgentsNamed(s.Agent) = {}
            THEN LookupFailedAt(p, k)
            ELSE /\ ~LookupFailedAt(p, k)
                 /\ (pc[p] = "generate" /\ idx[p] = calls[p][k].i) =>
                        agent[p][1] \in AgentsNamed(s.Agent)

\* ---- C33
\* An input template with the placeholder of a variable the run does not
\* have.
UnknownVariableTemplate ==
    <<Txt("ask"), VarPh("other"), VarPh("topic"), OutPh("b")>>

InputTemplates == {InputTemplate, UnknownVariableTemplate}

\* A variables map in which the value of one variable holds the
\* placeholder of a step's output.
OutputVariables == ("input" :> <<OutPh("a")>>) @@ ("topic" :> <<Txt("T")>>)

\* One invocation, given any workflow of up to MaxPromptSteps steps whose
\* inputs range over InputTemplates, and any of the variables maps.
InitPrompts ==
    InitWith({[p \in Procs |-> IF p = 1 THEN Some(w) ELSE Nil] :
                 w \in UNION {[1..n -> [Name : StepNames, Agent : AgentRefs,
                                        DependsOn : DepSets, Input : InputTemplates]] :
                              n \in 0..MaxPromptSteps}},
             {[p \in Procs |-> vs] :
                 vs \in {PlainVariables, NestedVariables, OutputVariables}})

PromptSpec == InitPrompts /\ [][Next]_vars

\* The input with each placeholder of a variable of vs replaced by the
\* variable's value, each output placeholder of a step of srs replaced by
\* the step's output, and everything else as it stands.
RECURSIVE Rendered(_, _, _)
Rendered(input, vs, srs) ==
    IF input = <<>> THEN <<>>
    ELSE LET t == Head(input)
             piece == IF \E key \in DOMAIN vs : t = VarPh(key)
                      THEN vs[CHOOSE key \in DOMAIN vs : t = VarPh(key)]
                      ELSE IF \E n \in DOMAIN srs : t = OutPh(n)
                      THEN OutputString(srs[CHOOSE n \in DOMAIN srs : t = OutPh(n)])
                      ELSE <<t>>
         IN piece \o Rendered(Tail(input), vs, srs)

\* C33: the prompt of the Generate request made for a step is the step's
\* input with every placeholder of a variable of the run replaced by that
\* variable's value and every output placeholder of a step executed so far
\* replaced by that step's output; the placeholders of unknown variables
\* and of steps not yet executed stand in the prompt as they are.
C33_PromptIsRenderedInput ==
    \A p \in Procs :
        pc[p] = "generate" =>
            /\ step(p).Name \in DOMAIN prompts[p]
            /\ prompts[p][step(p).Name] =
                   Rendered(step(p).Input, variables[p], stepResults[p])

\* ---- C34
\* The query with all its keywords in upper case.
UpperCased(q) == [q EXCEPT !.keyword = strMATCH, !.others = "upper"]

\* C34: a MATCH query gets the translation (or the error) that the same
\* query with its keywords MATCH, WHERE, AND, RETURN and COUNT in upper
\* case gets.
C34_KeywordCaseIrrelevant ==
    AnsweredMatch => Answer = ParseQuery(Text(UpperCased(kgQuery.query)))

\* ---- C35
\* The spans that have been closed by UpdateSpan.
ClosedSpans == {id \in DOMAIN spans : spans[id].end_time # Nil}

\* C35: a span closed by UpdateSpan with an end time not before its start
\* time has a stored duration that is not negative and equals the time
\* from its start time to that end time, whenever UpdateSpan was called.
C35_DurationIsEndMinusStart ==
    \A id \in ClosedSpans :
        /\ spans[id].duration_ms[1] >= 0
        /\ spans[id].duration_ms[1] = spans[id].end_time[1] - spans[id].start_time

====
